---- MODULE Spec2Model ----
(***************************************************************************)
(* Extractive summarizer: src/src/summarizer.py (summarize), the          *)
(* preprocessing it calls (src/src/preprocess.py) and the TF-IDF feature  *)
(* extraction (src/src/feature_extraction.py).                            *)
(*                                                                         *)
(* A Python str is modelled as a sequence of lexical units: a whitespace  *)
(* character (" ", "\t", "\n"), the full stop ".", or a word.  Words are  *)
(* atoms; everything the code does to a string (strip, the \s+            *)
(* substitution, sentence splitting, " ".join) acts on unit boundaries.   *)
(*                                                                         *)
(* ratio is a rational <<numerator, denominator>>, denominator > 0; on    *)
(* the ratios used here the float product len(sentences) * ratio and its  *)
(* int() agree with the exact rational arithmetic.  compression_ratio is  *)
(* kept in hundredths (100 is 1.0).                                       *)
(***************************************************************************)
EXTENDS Integers, Sequences, FiniteSets, TLC

VARIABLES
    text,            \* summarize's argument text
    ratio,           \* summarize's argument ratio, <<num, den>>
    pc,              \* position of the sequential call
    NLTK_READY,      \* preprocess._NLTK_READY
    installed,       \* NLTK resources present in the data directory
    sentences,       \* summarize's local sentences
    n_clusters,      \* summarize's local n_clusters
    labels,          \* summarize's local labels
    scores,          \* summarize's local scores
    selected,        \* original positions of summary_sentences
    summary_sentences, \* summarize's local summary_sentences
    result,          \* the dict summarize returns
    invoked,         \* the components summarize has called
    tpc,             \* per thread: position inside ensure_nltk_data
    calls,           \* per thread: calls of ensure_nltk_data begun
    started_ready    \* per thread: _NLTK_READY when the current call began

vars == <<text, ratio, pc, NLTK_READY, installed, sentences, n_clusters,
          labels, scores, selected, summary_sentences, result, invoked,
          tpc, calls, started_ready>>

(***************************************************************************)
(* Bounds                                                                  *)
(***************************************************************************)
MaxPieces == 3
MaxSelN == 3
MaxDocs == 8
NumThreads == 2
MaxCalls == 2

Max(a, b) == IF a >= b THEN a ELSE b
Min(a, b) == IF a <= b THEN a ELSE b

(***************************************************************************)
(* Strings                                                                 *)
(***************************************************************************)
Whitespace == {" ", "\t", "\n"}

RECURSIVE lstrip(_)
lstrip(s) ==
    IF s = <<>> THEN <<>>
    ELSE IF Head(s) \in Whitespace THEN lstrip(Tail(s)) ELSE s

RECURSIVE rstrip(_)
rstrip(s) ==
    IF s = <<>> THEN <<>>
    ELSE IF s[Len(s)] \in Whitespace THEN rstrip(SubSeq(s, 1, Len(s) - 1)) ELSE s

strip(s) == rstrip(lstrip(s))

\* re.sub(r"\s+", " ", text): every maximal whitespace run becomes one space
RECURSIVE collapse_whitespace(_)
collapse_whitespace(s) ==
    IF s = <<>> THEN <<>>
    ELSE IF Head(s) \in Whitespace
         THEN <<" ">> \o collapse_whitespace(lstrip(Tail(s)))
         ELSE <<Head(s)>> \o collapse_whitespace(Tail(s))

clean_text(t) ==
    IF t = <<>> THEN <<>> ELSE strip(collapse_whitespace(t))

\* nltk's sent_tokenize: a sentence ends at a full stop that is followed by
\* whitespace, or at the end of the text.
RECURSIVE sent_tokenize_from(_, _)
sent_tokenize_from(rest, cur) ==
    IF rest = <<>> THEN (IF cur = <<>> THEN <<>> ELSE <<cur>>)
    ELSE IF Head(rest) = "." /\ Len(rest) >= 2 /\ rest[2] \in Whitespace
         THEN <<cur \o <<".">>>> \o sent_tokenize_from(Tail(rest), <<>>)
         ELSE sent_tokenize_from(Tail(rest), cur \o <<Head(rest)>>)

sent_tokenize(t) == sent_tokenize_from(t, <<>>)

\* [s.strip() for s in sentences if s.strip()]
split_sentences(t) ==
    LET raw == sent_tokenize(t)
        stripped == [i \in DOMAIN raw |-> strip(raw[i])]
    IN SelectSeq(stripped, LAMBDA s : s # <<>>)

preprocess_text(t) ==
    LET cleaned == clean_text(t)
    IN [cleaned |-> cleaned, sentences |-> split_sentences(cleaned)]

RECURSIVE join(_, _)
join(sep, strs) ==
    IF strs = <<>> THEN <<>>
    ELSE IF Len(strs) = 1 THEN strs[1]
    ELSE strs[1] \o sep \o join(sep, Tail(strs))

(***************************************************************************)
(* Feature extraction (scikit-learn's TfidfVectorizer as configured)       *)
(***************************************************************************)
MaxDfPct == 95
MinDf == 1

\* scikit-learn's "english" stop word list, restricted to the words used here
StopWords == {"the"}

\* lowercase=True
lower(w) == IF w = "The" THEN "the" ELSE w

\* token_pattern (?u)\b\w\w+\b: whitespace and punctuation are no tokens
analyze(sentence) ==
    {lower(sentence[i]) : i \in {j \in DOMAIN sentence :
                                   sentence[j] \notin Whitespace \cup {"."}}}
        \ StopWords

term_count(sentence, t) ==
    Cardinality({i \in DOMAIN sentence : lower(sentence[i]) = t})

raw_vocabulary(sents) == UNION {analyze(sents[i]) : i \in DOMAIN sents}

document_frequency(sents, t) ==
    Cardinality({i \in DOMAIN sents : t \in analyze(sents[i])})

\* _limit_features: drop terms with df > max_df * n_doc or df < min_df
limit_features(sents) ==
    {t \in raw_vocabulary(sents) :
        /\ 100 * document_frequency(sents, t) <= MaxDfPct * Len(sents)
        /\ document_frequency(sents, t) >= MinDf}

\* fit_transform raises ValueError on an empty vocabulary ("empty vocabulary;
\* perhaps the documents only contain stop words") and when pruning leaves no
\* term ("After pruning, no terms remain").  Otherwise one row per sentence
\* over the kept terms; a cell is positive exactly when the term occurs.
build_tfidf_matrix(sents) ==
    IF raw_vocabulary(sents) = {} \/ limit_features(sents) = {}
    THEN [raised |-> TRUE, matrix |-> <<>>]
    ELSE [raised |-> FALSE,
          matrix |-> [i \in DOMAIN sents |->
                        [t \in limit_features(sents) |-> term_count(sents[i], t)]]]

ScoreLevels == {1, 2}

is_zero_row(row) == \A t \in DOMAIN row : row[t] = 0

\* The row means are reals; the model keeps what the arithmetic fixes: a zero
\* row has mean 0, any other row a positive mean, equal rows equal means.
\* Every score vector with these properties is a possible outcome.
get_sentence_scores(matrix) ==
    {sc \in [DOMAIN matrix -> {0} \cup ScoreLevels] :
        /\ \A i \in DOMAIN matrix : (sc[i] = 0) <=> is_zero_row(matrix[i])
        /\ \A i, j \in DOMAIN matrix : matrix[i] = matrix[j] => sc[i] = sc[j]}

(***************************************************************************)
(* Clustering and selection (src/clustering.py)                            *)
(***************************************************************************)
\* The grouper: any assignment of a label in [0, k) to each row; it fails
\* when k is outside 1..N.
cluster_sentences_raises(matrix, k) == k < 1 \/ k > Len(matrix)

cluster_sentences(matrix, k) == [DOMAIN matrix -> 0 .. (k - 1)]

members(lab, g) == {i \in DOMAIN lab : lab[i] = g}

occupied(lab) == {lab[i] : i \in DOMAIN lab}

RECURSIVE sorted(_)
sorted(S) ==
    IF S = {} THEN <<>>
    ELSE LET m == CHOOSE x \in S : \A y \in S : x <= y
         IN <<m>> \o sorted(S \ {m})

\* a variant that breaks score ties towards the latest position
select_representative_positions_last(lab, sc) ==
    sorted({CHOOSE i \in members(lab, g) :
                \A j \in members(lab, g) :
                    sc[j] < sc[i] \/ (sc[j] = sc[i] /\ j <= i)
            : g \in occupied(lab)})

\* per occupied group the member of maximum score, earliest position on a
\* tie; the chosen positions ascending
select_representative_positions(lab, sc) ==
    sorted({CHOOSE i \in members(lab, g) :
                \A j \in members(lab, g) :
                    sc[j] < sc[i] \/ (sc[j] = sc[i] /\ i <= j)
            : g \in occupied(lab)})

select_representative_sentences(sents, lab, sc) ==
    LET pos == select_representative_positions(lab, sc)
    IN [k \in DOMAIN pos |-> sents[pos[k]]]

(***************************************************************************)
(* NLTK resources (ensure_nltk_data)                                       *)
(***************************************************************************)
\* the dict with the stopwords entry left out
resources_without_stopwords == <<"punkt", "punkt_tab">>

\* the resources dict, in iteration order
resources == <<"punkt", "punkt_tab", "stopwords">>

resource_names == {resources[i] : i \in DOMAIN resources}

\* ensure_nltk_data run to completion by a single caller
installed_after_ensure ==
    IF NLTK_READY THEN installed ELSE installed \cup resource_names

(***************************************************************************)
(* summarize                                                               *)
(***************************************************************************)
Components == {"preprocess", "vectorizer", "scorer", "grouper", "selector"}

\* the guard without the all-whitespace test
is_empty_input_not_text(t) == t = <<>>

\* if not text or not text.strip()
is_empty_input(t) == t = <<>> \/ strip(t) = <<>>

\* the threshold off by one
is_trivial_below_two(sents) == Len(sents) < 2

\* if len(sentences) <= 2
is_trivial(sents) == Len(sents) <= 2

\* int(): truncation towards zero (den > 0)
trunc_div(num, den) ==
    IF num >= 0 THEN num \div den ELSE -((-num) \div den)

\* the product rounded to the nearest integer (half up) instead of truncated
n_clusters_rounded(n, r) ==
    Min(Max(1, (2 * n * r[1] + r[2]) \div (2 * r[2])), n)

\* the lower clamp max(1, .) left out
n_clusters_no_floor(n, r) == Min(trunc_div(n * r[1], r[2]), n)

\* n_clusters = max(1, int(len(sentences) * ratio)); min(n_clusters, len)
n_clusters_of(n, r) == Min(Max(1, trunc_div(n * r[1], r[2])), n)

\* the quotient cut to two decimals instead of rounded
round2_truncating(num, den) == (100 * num) \div den

\* round(num / den, 2) in hundredths; a tie goes to the even hundredth
round2(num, den) ==
    LET q == (100 * num) \div den
        twice == 2 * ((100 * num) % den)
    IN IF twice > den THEN q + 1
       ELSE IF twice < den THEN q
       ELSE IF q % 2 = 0 THEN q ELSE q + 1

\* the representatives joined last to first
summary_text_reversed(summ) ==
    join(<<" ">>, [k \in DOMAIN summ |-> summ[Len(summ) + 1 - k]])

\* " ".join(summary_sentences)
summary_text_of(summ) == join(<<" ">>, summ)

empty_result ==
    [summary |-> <<>>, original_sentence_count |-> 0,
     summary_sentence_count |-> 0, compression_ratio |-> 0]

trivial_result(cleaned, sents) ==
    [summary |-> cleaned, original_sentence_count |-> Len(sents),
     summary_sentence_count |-> Len(sents), compression_ratio |-> 100]

\* summary_sentence_count taken from the wrong list
normal_result_counting_input(summary_text, sents, summ) ==
    [summary |-> summary_text, original_sentence_count |-> Len(sents),
     summary_sentence_count |-> Len(sents),
     compression_ratio |-> round2(Len(summ), Len(sents))]

normal_result(summary_text, sents, summ) ==
    [summary |-> summary_text, original_sentence_count |-> Len(sents),
     summary_sentence_count |-> Len(summ),
     compression_ratio |-> round2(Len(summ), Len(sents))]

\* no dict returned (yet)
NoResult ==
    [summary |-> <<>>, original_sentence_count |-> -1,
     summary_sentence_count |-> -1, compression_ratio |-> -1]

threadVars == <<tpc, calls, started_ready>>

SummarizeEmpty ==
    /\ pc = "call"
    /\ is_empty_input(text)
    /\ result' = empty_result
    /\ pc' = "returned"
    /\ UNCHANGED <<text, ratio, NLTK_READY, installed, sentences, n_clusters,
                   labels, scores, selected, summary_sentences, invoked,
                   threadVars>>

SummarizeTrivial ==
    /\ pc = "call"
    /\ ~is_empty_input(text)
    /\ LET pp == preprocess_text(text)
       IN /\ is_trivial(pp.sentences)
          /\ sentences' = pp.sentences
          /\ result' = trivial_result(pp.cleaned, pp.sentences)
    /\ NLTK_READY' = TRUE
    /\ installed' = installed_after_ensure
    /\ invoked' = {"preprocess"}
    /\ pc' = "returned"
    /\ UNCHANGED <<text, ratio, n_clusters, labels, scores, selected,
                   summary_sentences, threadVars>>

\* the vectorizer's ValueError, or the grouper's error, propagates
SummarizeRaises ==
    /\ pc = "call"
    /\ ~is_empty_input(text)
    /\ LET pp == preprocess_text(text)
           k == n_clusters_of(Len(pp.sentences), ratio)
           tfidf == build_tfidf_matrix(pp.sentences)
       IN /\ ~is_trivial(pp.sentences)
          /\ tfidf.raised \/ cluster_sentences_raises(tfidf.matrix, k)
          /\ sentences' = pp.sentences
          /\ n_clusters' = k
          /\ invoked' = IF tfidf.raised THEN {"preprocess", "vectorizer"}
                        ELSE {"preprocess", "vectorizer", "scorer", "grouper"}
    /\ NLTK_READY' = TRUE
    /\ installed' = installed_after_ensure
    /\ pc' = "raised"
    /\ UNCHANGED <<text, ratio, labels, scores, selected, summary_sentences,
                   result, threadVars>>

SummarizeNormal ==
    /\ pc = "call"
    /\ ~is_empty_input(text)
    /\ LET pp == preprocess_text(text)
           k == n_clusters_of(Len(pp.sentences), ratio)
           tfidf == build_tfidf_matrix(pp.sentences)
       IN /\ ~is_trivial(pp.sentences)
          /\ ~tfidf.raised
          /\ ~cluster_sentences_raises(tfidf.matrix, k)
          /\ \E sc \in get_sentence_scores(tfidf.matrix) :
             \E lab \in cluster_sentences(tfidf.matrix, k) :
                LET summ == select_representative_sentences(pp.sentences, lab, sc)
                IN /\ sentences' = pp.sentences
                   /\ n_clusters' = k
                   /\ scores' = sc
                   /\ labels' = lab
                   /\ selected' = select_representative_positions(lab, sc)
                   /\ summary_sentences' = summ
                   /\ result' = normal_result(summary_text_of(summ),
                                              pp.sentences, summ)
    /\ NLTK_READY' = TRUE
    /\ installed' = installed_after_ensure
    /\ invoked' = Components
    /\ pc' = "returned"
    /\ UNCHANGED <<text, ratio, threadVars>>

(***************************************************************************)
(* Inputs                                                                  *)
(***************************************************************************)
\* the pieces a text is assembled from; the last has no full stop, so it runs
\* on into the piece after it
Pieces ==
    { <<"ml", ".">>, <<"The", ".">>, <<"ai", " ", "\t", "ml">> }

Pads ==
    { [lead |-> <<>>, trail |-> <<>>],
      [lead |-> <<" ">>, trail |-> <<"\n", "\t">>] }

TextInputs ==
    {pad.lead \o join(<<" ">>, ks) \o pad.trail :
        pad \in Pads, ks \in UNION {[1 .. n -> Pieces] : n \in 0 .. MaxPieces}}

Ratios ==
    { <<-1, 4>>, <<0, 1>>, <<1, 4>>, <<3, 10>>, <<1, 2>>, <<3, 4>>, <<1, 1>>,
      <<5, 4>> }

Threads == 1 .. NumThreads

IdleThreads ==
    /\ tpc = [t \in Threads |-> "idle"]
    /\ calls = [t \in Threads |-> 0]
    /\ started_ready = [t \in Threads |-> FALSE]

NoLocals ==
    /\ sentences = <<>>
    /\ n_clusters = 0
    /\ labels = <<>>
    /\ scores = <<>>
    /\ selected = <<>>
    /\ summary_sentences = <<>>
    /\ result = NoResult
    /\ invoked = {}

Init ==
    /\ text \in TextInputs
    /\ ratio \in Ratios
    /\ pc = "call"
    /\ NLTK_READY \in BOOLEAN
    /\ installed = IF NLTK_READY THEN resource_names ELSE {}
    /\ NoLocals
    /\ IdleThreads

Next ==
    \/ SummarizeEmpty
    \/ SummarizeTrivial
    \/ SummarizeRaises
    \/ SummarizeNormal

Spec == Init /\ [][Next]_vars

(***************************************************************************)
(* The group count alone: len(sentences) and ratio over a finer grid       *)
(***************************************************************************)
FineRatios == {<<j, 20>> : j \in -4 .. 24}

InitK ==
    /\ \E n \in 3 .. MaxDocs : sentences = [i \in 1 .. n |-> <<"ml", ".">>]
    /\ ratio \in FineRatios
    /\ pc = "derive"
    /\ text = <<>>
    /\ NLTK_READY = TRUE
    /\ installed = resource_names
    /\ n_clusters = 0
    /\ labels = <<>>
    /\ scores = <<>>
    /\ selected = <<>>
    /\ summary_sentences = <<>>
    /\ result = NoResult
    /\ invoked = {}
    /\ IdleThreads

DeriveGroupCount ==
    /\ pc = "derive"
    /\ n_clusters' = n_clusters_of(Len(sentences), ratio)
    /\ pc' = "derived"
    /\ UNCHANGED <<text, ratio, NLTK_READY, installed, sentences, labels,
                   scores, selected, summary_sentences, result, invoked,
                   threadVars>>

SpecK == InitK /\ [][DeriveGroupCount]_vars

(***************************************************************************)
(* The selector alone: any sentences, labels and scores                    *)
(***************************************************************************)
InitSelect ==
    /\ \E n \in 1 .. MaxSelN :
          /\ sentences \in [1 .. n -> {<<"ml", ".">>, <<"The", ".">>}]
          /\ labels \in [1 .. n -> 0 .. (n - 1)]
          /\ scores \in [1 .. n -> {0} \cup ScoreLevels]
    /\ pc = "select"
    /\ text = <<>>
    /\ ratio = <<1, 1>>
    /\ NLTK_READY = TRUE
    /\ installed = resource_names
    /\ n_clusters = 0
    /\ selected = <<>>
    /\ summary_sentences = <<>>
    /\ result = NoResult
    /\ invoked = {}
    /\ IdleThreads

Select ==
    /\ pc = "select"
    /\ selected' = select_representative_positions(labels, scores)
    /\ summary_sentences' =
           select_representative_sentences(sentences, labels, scores)
    /\ pc' = "selected"
    /\ UNCHANGED <<text, ratio, NLTK_READY, installed, sentences, n_clusters,
                   labels, scores, result, invoked, threadVars>>

SpecSelect == InitSelect /\ [][Select]_vars

(***************************************************************************)
(* Concurrent callers of ensure_nltk_data                                  *)
(***************************************************************************)
summarizeVars ==
    <<text, ratio, pc, sentences, n_clusters, labels, scores, selected,
      summary_sentences, result, invoked>>

at(t) == tpc[t][1]

\* after resource i of the loop: the next resource, or the line after the loop
after_resource(i) ==
    IF i < Len(resources) THEN <<"find", i + 1>> ELSE <<"set_ready", 0>>

InitThreads ==
    /\ NLTK_READY = FALSE
    /\ installed \in SUBSET resource_names
    /\ tpc = [t \in Threads |-> <<"idle", 0>>]
    /\ calls = [t \in Threads |-> 0]
    /\ started_ready = [t \in Threads |-> FALSE]
    /\ pc = "threads"
    /\ text = <<>>
    /\ ratio = <<1, 1>>
    /\ NoLocals

\* a caller (split_sentences, tokenize_and_clean, _get_stop_words) enters
Call(t) ==
    /\ at(t) = "idle"
    /\ calls[t] < MaxCalls
    /\ calls' = [calls EXCEPT ![t] = @ + 1]
    /\ started_ready' = [started_ready EXCEPT ![t] = NLTK_READY]
    /\ tpc' = [tpc EXCEPT ![t] = <<"check", 0>>]
    /\ UNCHANGED <<NLTK_READY, installed, summarizeVars>>

\* if _NLTK_READY: return
CheckReady(t) ==
    /\ at(t) = "check"
    /\ NLTK_READY
    /\ tpc' = [tpc EXCEPT ![t] = <<"return", 0>>]
    /\ UNCHANGED <<NLTK_READY, installed, calls, started_ready, summarizeVars>>

CheckNotReady(t) ==
    /\ at(t) = "check"
    /\ ~NLTK_READY
    /\ tpc' = [tpc EXCEPT ![t] = <<"find", 1>>]
    /\ UNCHANGED <<NLTK_READY, installed, calls, started_ready, summarizeVars>>

\* nltk.data.find(path) succeeds
FindPresent(t) ==
    /\ at(t) = "find"
    /\ resources[tpc[t][2]] \in installed
    /\ tpc' = [tpc EXCEPT ![t] = after_resource(tpc[t][2])]
    /\ UNCHANGED <<NLTK_READY, installed, calls, started_ready, summarizeVars>>

\* nltk.data.find(path) raises LookupError
FindMissing(t) ==
    /\ at(t) = "find"
    /\ resources[tpc[t][2]] \notin installed
    /\ tpc' = [tpc EXCEPT ![t] = <<"download", tpc[t][2]>>]
    /\ UNCHANGED <<NLTK_READY, installed, calls, started_ready, summarizeVars>>

\* nltk.download(name, quiet=True), succeeding
Download(t) ==
    /\ at(t) = "download"
    /\ installed' = installed \cup {resources[tpc[t][2]]}
    /\ tpc' = [tpc EXCEPT ![t] = after_resource(tpc[t][2])]
    /\ UNCHANGED <<NLTK_READY, calls, started_ready, summarizeVars>>

\* _NLTK_READY = True
SetReady(t) ==
    /\ at(t) = "set_ready"
    /\ NLTK_READY' = TRUE
    /\ tpc' = [tpc EXCEPT ![t] = <<"return", 0>>]
    /\ UNCHANGED <<installed, calls, started_ready, summarizeVars>>

\* back in the caller, which goes on to read the resources
Return(t) ==
    /\ at(t) = "return"
    /\ tpc' = [tpc EXCEPT ![t] = <<"idle", 0>>]
    /\ UNCHANGED <<NLTK_READY, installed, calls, started_ready, summarizeVars>>

NextThreads ==
    \E t \in Threads :
        \/ Call(t)
        \/ CheckReady(t)
        \/ CheckNotReady(t)
        \/ FindPresent(t)
        \/ FindMissing(t)
        \/ Download(t)
        \/ SetReady(t)
        \/ Return(t)

SpecThreads == InitThreads /\ [][NextThreads]_vars

(***************************************************************************)
(* Properties                                                              *)
(***************************************************************************)
IsBlank(t) == \A i \in DOMAIN t : t[i] \in Whitespace

NonSpacePositions(s) == sorted({i \in DOMAIN s : s[i] \notin Whitespace})

\* c is t with every whitespace run turned into one space and the ends trimmed
IsCleanedOf(c, t) ==
    LET pc_ == NonSpacePositions(c)
        pt == NonSpacePositions(t)
    IN /\ Len(pc_) = Len(pt)
       /\ \A k \in DOMAIN pc_ : c[pc_[k]] = t[pt[k]]
       /\ c # <<>> => (c[1] \notin Whitespace /\ c[Len(c)] \notin Whitespace)
       /\ \A i \in DOMAIN c : c[i] \in Whitespace =>
              (c[i] = " " /\ c[i + 1] \notin Whitespace)
       /\ \A k \in 1 .. (Len(pc_) - 1) :
              (c[pc_[k] + 1] \in Whitespace) <=> (t[pt[k] + 1] \in Whitespace)

NumericComponents == {"vectorizer", "scorer", "grouper", "selector"}

RatioPositive == ratio[1] > 0
RatioAboveOne == ratio[1] > ratio[2]

\* C1: for an empty or all-whitespace text and any ratio, summarize returns
\* {summary: "", original_sentence_count: 0, summary_sentence_count: 0,
\* compression_ratio: 0.0}, calls no component and leaves _NLTK_READY as it was.
C1_BlankTextGivesEmptyResult ==
    [][(pc = "call" /\ IsBlank(text)) =>
        /\ pc' = "returned"
        /\ result' = [summary |-> <<>>, original_sentence_count |-> 0,
                      summary_sentence_count |-> 0, compression_ratio |-> 0]
        /\ invoked' = {}
        /\ NLTK_READY' = NLTK_READY]_vars

C1_Witness ==
    /\ pc = "returned"
    /\ text # <<>>
    /\ IsBlank(text)
    /\ ~NLTK_READY
    /\ result.original_sentence_count = 0
    /\ result.compression_ratio = 0

\* C2: for a non-blank text of at most 2 sentences and any ratio, summarize
\* returns the whitespace-cleaned text itself as summary, both counts equal to
\* the number of sentences, compression_ratio 1.0, and calls no vectorizer,
\* scorer, grouper or selector.
C2_TrivialTextReturnedVerbatim ==
    (pc # "call" /\ ~IsBlank(text) /\ Len(sentences) <= 2) =>
        /\ pc = "returned"
        /\ IsCleanedOf(result.summary, text)
        /\ result.original_sentence_count = Len(sentences)
        /\ result.summary_sentence_count = Len(sentences)
        /\ result.compression_ratio = 100
        /\ invoked \cap NumericComponents = {}

C2_Witness ==
    /\ pc = "returned"
    /\ Len(sentences) = 2
    /\ result.summary # text
    /\ result.summary_sentence_count = 2
    /\ ratio = <<3, 10>>

\* C3 (as claimed): with N >= 3 sentences and ratio in (0,1], the group count
\* is N * ratio rounded to a nearest integer, clamped to 1..N.
C3_GroupCountIsRounded ==
    (pc = "derived" /\ RatioPositive /\ ~RatioAboveOne) =>
        \E m \in 0 .. Len(sentences) :
            /\ 2 * m * ratio[2] - 2 * Len(sentences) * ratio[1] <= ratio[2]
            /\ 2 * Len(sentences) * ratio[1] - 2 * m * ratio[2] <= ratio[2]
            /\ n_clusters = Min(Max(1, m), Len(sentences))

\* C3 (amended): with N >= 3 sentences and ratio in (0,1], the group count is
\* N * ratio truncated to an integer, clamped to 1..N.
C3_GroupCountIsTruncated ==
    (pc = "derived" /\ RatioPositive /\ ~RatioAboveOne) =>
        \E m \in 0 .. Len(sentences) :
            /\ m * ratio[2] <= Len(sentences) * ratio[1]
            /\ Len(sentences) * ratio[1] < (m + 1) * ratio[2]
            /\ n_clusters = Min(Max(1, m), Len(sentences))

C3_Witness ==
    /\ pc = "derived"
    /\ Len(sentences) = 5
    /\ ratio = <<6, 20>>
    /\ n_clusters = 1

RecognizedTerms(i) == analyze(sentences[i]) \cap limit_features(sentences)

Returned3 == pc = "returned" /\ Len(sentences) >= 3

\* C5: with N >= 3 sentences that all reduce to zero recognized terms (only
\* stop words, or every term pruned by the 95% document-frequency cut-off),
\* summarize does not raise: all scores are 0 and a well-formed result with at
\* least one sentence is returned.
C5_VocabularyExhaustionNotFatal ==
    (/\ pc # "call"
     /\ Len(sentences) >= 3
     /\ \A i \in DOMAIN sentences : RecognizedTerms(i) = {}) =>
        /\ pc = "returned"
        /\ \A i \in DOMAIN scores : scores[i] = 0
        /\ result.summary_sentence_count >= 1
        /\ result.original_sentence_count = Len(sentences)

\* the text of the sentences at the positions of P, in document order
RECURSIVE TextInDocumentOrder(_, _)
TextInDocumentOrder(i, P) ==
    IF i > Len(sentences) THEN <<>>
    ELSE LET rest == TextInDocumentOrder(i + 1, P \ {i})
         IN IF i \notin P THEN rest
            ELSE IF P \ {i} = {} THEN sentences[i]
            ELSE sentences[i] \o <<" ">> \o rest

\* C6: the sentences chosen by the selector, and joined into the summary, are
\* input sentences identified by position, at most N of them, in strictly
\* increasing original position, whatever the label order and score order
\* and also with duplicate sentence strings.
C6_SummaryIsOrderedSubset ==
    Returned3 =>
        /\ Len(selected) <= Len(sentences)
        /\ \A k \in DOMAIN selected : selected[k] \in DOMAIN sentences
        /\ \A k \in 1 .. (Len(selected) - 1) : selected[k] < selected[k + 1]
        /\ Len(summary_sentences) = Len(selected)
        /\ \A k \in DOMAIN selected :
               summary_sentences[k] = sentences[selected[k]]
        /\ result.summary =
               TextInDocumentOrder(1, {selected[k] : k \in DOMAIN selected})

\* of two equal sentences the later one is chosen and the earlier is not;
\* two chosen sentences have labels descending and scores ascending
C6_Witness ==
    /\ Returned3
    /\ \E i, j \in DOMAIN sentences :
          /\ i < j
          /\ sentences[i] = sentences[j]
          /\ i \notin {selected[k] : k \in DOMAIN selected}
          /\ j \in {selected[k] : k \in DOMAIN selected}
    /\ \E i, j \in DOMAIN sentences :
          /\ i < j
          /\ labels[i] > labels[j]
          /\ scores[i] < scores[j]
          /\ i \in {selected[k] : k \in DOMAIN selected}
          /\ j \in {selected[k] : k \in DOMAIN selected}

\* C7: with N >= 3 sentences and group count k, summary_sentence_count is the
\* number of groups that have a member, so 1 <= summary_sentence_count <= k
\* <= N; a group without members adds no sentence and no error.
C7_CountIsOccupiedGroups ==
    Returned3 =>
        /\ result.summary_sentence_count =
               Cardinality({labels[i] : i \in DOMAIN labels})
        /\ 1 <= result.summary_sentence_count
        /\ result.summary_sentence_count <= n_clusters
        /\ n_clusters <= Len(sentences)

C7_Witness ==
    /\ Returned3
    /\ n_clusters = 3
    /\ Cardinality({labels[i] : i \in DOMAIN labels}) = 2
    /\ result.summary_sentence_count = 2

\* C8: with N >= 3 sentences, compression_ratio is summary_sentence_count /
\* original_sentence_count rounded to 2 decimals, original_sentence_count is
\* N, and compression_ratio is in [0,1].
C8_CompressionRatioIsRounded ==
    Returned3 =>
        /\ result.original_sentence_count = Len(sentences)
        /\ result.compression_ratio \in 0 .. 100
        /\ 2 * (100 * result.summary_sentence_count
                - result.compression_ratio * result.original_sentence_count)
               <= result.original_sentence_count
        /\ 2 * (result.compression_ratio * result.original_sentence_count
                - 100 * result.summary_sentence_count)
               <= result.original_sentence_count

C8_Witness ==
    /\ Returned3
    /\ result.summary_sentence_count = 2
    /\ result.original_sentence_count = 3
    /\ result.compression_ratio = 67

ChosenIn(g) == {k \in DOMAIN selected : labels[selected[k]] = g}

\* C9: for every group with a member the selector picks exactly one member
\* of it; that member has the highest score in the group and, among the
\* members with that score, the earliest position; nothing else is picked.
C9_BestOfEachGroup ==
    pc = "selected" =>
        /\ \A k \in DOMAIN selected : selected[k] \in DOMAIN labels
        /\ Len(selected) = Cardinality({labels[i] : i \in DOMAIN labels})
        /\ \A g \in {labels[i] : i \in DOMAIN labels} :
              /\ Cardinality(ChosenIn(g)) = 1
              /\ \A k \in ChosenIn(g) :
                 \A j \in DOMAIN labels :
                    labels[j] = g =>
                       \/ scores[j] < scores[selected[k]]
                       \/ /\ scores[j] = scores[selected[k]]
                          /\ selected[k] <= j

\* a group whose top score is shared by two members, beside a second group
\* with a lower label and a higher score
C9_Witness ==
    /\ pc = "selected"
    /\ Len(selected) = 2
    /\ \E i, j, l \in DOMAIN labels :
          /\ i < j
          /\ j < l
          /\ labels[i] = labels[j]
          /\ scores[i] = scores[j]
          /\ labels[l] < labels[i]
          /\ scores[l] > scores[i]
          /\ selected = <<i, l>>

Required == {"punkt", "punkt_tab", "stopwords"}

InLoop(t) == at(t) \in {"find", "download", "set_ready"}

\* C10: with concurrent callers of ensure_nltk_data and downloads that
\* succeed, _NLTK_READY is True and a caller returns only when punkt,
\* punkt_tab and stopwords are all present; once True, _NLTK_READY stays
\* True, and a call begun after that looks nothing up and downloads nothing.
C10_RaceTolerantInitialization ==
    [][/\ NLTK_READY' => Required \subseteq installed'
       /\ \A t \in Threads :
             at(t)' = "return" => (NLTK_READY' /\ Required \subseteq installed')
       /\ NLTK_READY => NLTK_READY'
       /\ installed \subseteq installed'
       /\ \A t \in Threads :
             (started_ready'[t] /\ at(t)' # "idle") => ~InLoop(t)']_vars

\* two callers raced: one has returned, the other is still in the loop
C10_Witness ==
    \E t, u \in Threads :
        /\ t # u
        /\ at(t) = "return"
        /\ NLTK_READY
        /\ at(u) \in {"find", "download"}
        /\ ~started_ready[u]
        /\ calls[t] = 1

====
